---- MODULE Spec2Model ----
\* MindForge: the progression and puzzle-session state machine of
\* src/js/core/game.js (class MindForge), with the puzzle catalogues of the
\* three implemented chambers.
EXTENDS Integers, Sequences, FiniteSets, TLC

VARIABLES
    user,            \* gameState.user
    chambers,        \* gameState.chambers: id -> chamber (Map)
    currentChamber,  \* gameState.currentChamber
    currentPuzzle,   \* gameState.currentPuzzle: <<>> (null) or <<attempt>>
    analytics,       \* gameState.analytics
    now,             \* Date.now(), in ms
    toast,           \* the last message given to showTemporaryMessage
    feedback,        \* the score last rendered by showFeedback: <<>> or <<score>>
    storage,         \* localStorage['mindforge_save']: <<>> (absent) or <<text>>
    settings,        \* gameState.settings
    chamberOrder,    \* the key order of the Map gameState.chambers
    sinkFails,       \* sessionStorage raises when logEvent() uses it
    loadingComplete, \* this.loadingComplete
    enteredAt,       \* history: progress.completed of the attempt's chamber when the live attempt was started
    chamberComplete, \* history: nextPuzzle ran past the last puzzle and no puzzle was started since
    resetDone,       \* history: confirmResetProgress() removed the save, no page load since
    events,          \* AnalyticsManager.events: the names of the events, in order
    storedEvents,    \* localStorage['mindforge_analytics']: the names of the stored events
    optedOut,        \* localStorage['mindforge_analytics_opt_out'] === 'true'
    currentScreen,   \* ScreenManager.currentScreen
    screenHistory,   \* ScreenManager.screenHistory
    screenClasses,   \* the classList of each screen element
    timers,          \* the pending setTimeout callbacks, in the order they will run
    callLog,         \* history: the showScreen calls made: screen and saveHistory
    displayLog,      \* history: the screens displayScreen was called for, in order
    staticCache,     \* the service worker's cache CACHE_NAME: the URLs it has a response for
    dataCache,       \* the service worker's cache DATA_CACHE_NAME, likewise
    lastFetch        \* history: the last intercepted fetch: <<>> or <<record>>

\* the variables of the game (class MindForge)
gameVars == <<user, chambers, currentChamber, currentPuzzle, analytics, now, toast, feedback,
              storage, settings, chamberOrder, sinkFails, loadingComplete, enteredAt,
              chamberComplete>>

\* the variables of the analytics (class AnalyticsManager)
trackerVars == <<events, storedEvents, optedOut>>

\* the variables of the screens (class ScreenManager)
screenVars == <<currentScreen, screenHistory, screenClasses, timers, callLog, displayLog>>

\* the variables of the service worker
workerVars == <<staticCache, dataCache, lastFetch>>

\* the variables of the components no operation of the game or of its reset touches
apart == <<trackerVars, screenVars, workerVars>>

\* the variables the operations of the game leave alone
elsewhere == <<resetDone, apart>>

\* the variables the operations of the analytics leave alone
besideTracker == <<gameVars, resetDone, screenVars, workerVars>>

\* the variables the operations of the screens leave alone
besideScreens == <<gameVars, resetDone, trackerVars, workerVars>>

\* the variables the service worker leaves alone
besideWorker == <<gameVars, resetDone, trackerVars, screenVars>>

vars == <<gameVars, elsewhere>>

----------------------------------------------------------------------------
\* Bounds of the exploration

\* checkAnswer calls with an answer in one session (analytics.puzzleAttempts)
MaxSubmits == 3
\* puzzles solved on the profile that is reset (user.totalSolved)
MaxResetSolved == 2
\* events in the analytics store
MaxStoredEvents == 5
\* showScreen calls, those of goBack included
MaxShows == 3
\* showHint calls in one session (analytics.hintsUsed)
MaxHintCalls == 1
\* nextPuzzle is called while the attempt is fewer than MaxAhead puzzles ahead
\* of its chamber's progress.completed
MaxAhead == 1
\* checkAnswer calls with an answer while one attempt is studied
MaxAttempts == 3
\* showHint calls while one attempt is studied
MaxHints == 4
\* direct addXP calls are made while level < MaxLevel
MaxLevel == 5

\* a setting is changed while fewer than MaxChangedSettings differ from their defaults
MaxChangedSettings == 2
\* checkAnswer calls with an answer while the profile is studied
MaxProfileSubmits == 3

\* the values of Date.now() an attempt is stepped through: both sides of the
\* two time-bonus thresholds
Instants == {0, 30000, 60000, 60001}

\* the amounts given to addXP when it is called directly
XPAmounts == {0, 1, 40, 99, 100, 150, 210, 331}

----------------------------------------------------------------------------
\* Program data

Max(a, b) == IF a >= b THEN a ELSE b
Min(a, b) == IF a <= b THEN a ELSE b

\* getCurrentAnswer() returns null when nothing is selected
NoAnswer == -1

NoChamber == "null"

chamberDefinitions == <<
    [id |-> "pattern-recognition", unlockLevel |-> 1,  puzzleCount |-> 25],
    [id |-> "logical-sequences",   unlockLevel |-> 1,  puzzleCount |-> 25],
    [id |-> "spatial-reasoning",   unlockLevel |-> 3,  puzzleCount |-> 25],
    [id |-> "deductive-reasoning", unlockLevel |-> 5,  puzzleCount |-> 25],
    [id |-> "inductive-reasoning", unlockLevel |-> 7,  puzzleCount |-> 25],
    [id |-> "analytical-thinking", unlockLevel |-> 10, puzzleCount |-> 25],
    [id |-> "mathematical-logic",  unlockLevel |-> 12, puzzleCount |-> 25],
    [id |-> "verbal-reasoning",    unlockLevel |-> 8,  puzzleCount |-> 25],
    [id |-> "conditional-logic",   unlockLevel |-> 15, puzzleCount |-> 25],
    [id |-> "set-theory",          unlockLevel |-> 18, puzzleCount |-> 25],
    [id |-> "logical-paradoxes",   unlockLevel |-> 20, puzzleCount |-> 25],
    [id |-> "meta-reasoning",      unlockLevel |-> 25, puzzleCount |-> 30] >>

ChamberIds == {chamberDefinitions[i].id : i \in DOMAIN chamberDefinitions}

implementedChambers == {"pattern-recognition", "logical-sequences", "spatial-reasoning"}

\* points and correctAnswer of the catalogue puzzles, in generatePuzzles() order
PatternRecognitionPoints ==
    <<10, 10, 10, 15, 15, 15, 20, 20, 10, 10, 10, 15, 15, 15, 20, 25,
      10, 15, 15, 15, 20, 25, 20, 25, 30>>
PatternRecognitionAnswers ==
    <<1, 0, 1, 1, 2, 2, 0, 0, 1, 2, 1, 2, 2, 1, 1, 0,
      1, 2, 1, 0, 0, 0, 1, 2, 0>>
LogicalSequencesPoints ==
    <<10, 10, 10, 15, 15, 15, 15, 20, 15, 15, 20, 20, 20, 20, 20, 25,
      25, 25, 25, 25, 30, 25, 25, 30, 35>>
LogicalSequencesAnswers ==
    <<0, 1, 0, 1, 1, 1, 1, 1, 1, 0, 0, 0, 0, 0, 1, 1,
      3, 1, 2, 1, 0, 0, 0, 2, 2>>
SpatialReasoningPoints ==
    <<10, 10, 10, 15, 15, 15, 15, 20, 15, 15, 15, 20, 20, 20, 25, 25,
      25, 25, 30, 25, 30, 30, 25, 30, 35>>
SpatialReasoningAnswers ==
    <<1, 0, 2, 2, 0, 3, 2, 1, 2, 1, 0, 1, 1, 1, 3, 2,
      2, 1, 0, 1, 0, 2, 1, 1, 2>>

\* every catalogue puzzle is multiple-choice with 4 options and 3 hints
Catalogue(points, answers) ==
    [i \in DOMAIN points |->
        [points |-> points[i], correctAnswer |-> answers[i], hints |-> 3, options |-> 4]]

\* window.PuzzleGenerators[chamberId].generatePuzzles()
PuzzleGenerators ==
    [c \in implementedChambers |->
        CASE c = "pattern-recognition" -> Catalogue(PatternRecognitionPoints, PatternRecognitionAnswers)
          [] c = "logical-sequences"   -> Catalogue(LogicalSequencesPoints, LogicalSequencesAnswers)
          [] c = "spatial-reasoning"   -> Catalogue(SpatialReasoningPoints, SpatialReasoningAnswers)]

\* chamber.puzzles after loadChamberPuzzles(): filled for the implemented
\* chambers only, [] for the others; never changed afterwards.
\* JavaScript index i is TLA+ index i + 1.
puzzlesOf(chamberId) ==
    IF chamberId \in implementedChambers THEN PuzzleGenerators[chamberId] ELSE <<>>

\* the radio inputs' values, and no selection
Answers == {NoAnswer} \cup (0 .. 3)

defaultUser ==
    [level |-> 1, xp |-> 0, xpToNext |-> 100, totalSolved |-> 0,
     currentStreak |-> 0, chambersUnlocked |-> 1]

defaultAnalytics == [puzzleAttempts |-> 0, hintsUsed |-> 0]

----------------------------------------------------------------------------
\* Progression engine

\* mutant: the exponent is level instead of level - 1
calculateXPForNextLevelOffByOne(level) == (100 * 11 ^ level) \div (10 ^ level)

\* Math.floor(100 * Math.pow(1.1, level - 1)). The doubles give the same
\* integers as the exact rational floor(100 * 11^(level-1) / 10^(level-1))
\* for every level the model reaches.
calculateXPForNextLevel(level) == (100 * 11 ^ (level - 1)) \div (10 ^ (level - 1))

\* mutant: the count is added to the previous one
updateUnlockedChambersAdds(u, ch) ==
    [u EXCEPT !.chambersUnlocked =
        @ + Cardinality({id \in DOMAIN ch : ch[id].unlockLevel <= u.level})]

\* updateUnlockedChambers(): counts the chambers of the Map whose unlockLevel <= level
updateUnlockedChambers(u, ch) ==
    [u EXCEPT !.chambersUnlocked =
        Cardinality({id \in DOMAIN ch : ch[id].unlockLevel <= u.level})]

\* mutant: a level-up pays half of the threshold
RECURSIVE levelUpLoopHalfPrice(_, _)
levelUpLoopHalfPrice(u, ch) ==
    IF u.xp >= u.xpToNext
    THEN levelUpLoopHalfPrice(
            updateUnlockedChambers(
                [u EXCEPT !.xp = @ - (u.xpToNext \div 2),
                          !.level = @ + 1,
                          !.xpToNext = calculateXPForNextLevel(u.level + 1)],
                ch),
            ch)
    ELSE u

\* the while loop of addXP
RECURSIVE levelUpLoop(_, _)
levelUpLoop(u, ch) ==
    IF u.xp >= u.xpToNext
    THEN levelUpLoop(
            updateUnlockedChambers(
                [u EXCEPT !.xp = @ - u.xpToNext,
                          !.level = @ + 1,
                          !.xpToNext = calculateXPForNextLevel(u.level + 1)],
                ch),
            ch)
    ELSE u

\* mutant: a single conditional level-up instead of the loop
addXPSingleLevelUp(u, ch, amount) ==
    LET v == [u EXCEPT !.xp = @ + amount] IN
    IF v.xp >= v.xpToNext
    THEN updateUnlockedChambers(
            [v EXCEPT !.xp = @ - v.xpToNext,
                      !.level = @ + 1,
                      !.xpToNext = calculateXPForNextLevel(v.level + 1)],
            ch)
    ELSE v

\* addXP(amount), as a function of the user profile and the chambers
addXP(u, ch, amount) == levelUpLoop([u EXCEPT !.xp = @ + amount], ch)

\* addXP(amount) when logEvent() raises: the exception of logEvent('level_up')
\* leaves the loop at the end of its first iteration
addXPInterrupted(u, ch, amount) ==
    LET v == [u EXCEPT !.xp = @ + amount] IN
    IF v.xp >= v.xpToNext
    THEN updateUnlockedChambers(
            [v EXCEPT !.xp = @ - v.xpToNext,
                      !.level = @ + 1,
                      !.xpToNext = calculateXPForNextLevel(v.level + 1)],
            ch)
    ELSE v

LevelUpMessage(level) == "Level up! You are now level " \o ToString(level) \o "!"

\* the toast left by addXP: the message of its last level-up, if any
toastAfterXP(before, after, t) ==
    IF after.level # before.level THEN LevelUpMessage(after.level) ELSE t

----------------------------------------------------------------------------
\* Scoring

maxBonus == 5
fastTime == 30000

\* mutant: the thresholds are compared with < instead of <=
calculateTimeBonusStrict(startTime, t) ==
    LET timeSpent == t - startTime IN
    IF timeSpent < fastTime THEN maxBonus
    ELSE IF timeSpent < fastTime * 2 THEN maxBonus \div 2
    ELSE 0

\* calculateTimeBonus(startTime), with t = Date.now()
calculateTimeBonus(startTime, t) ==
    LET timeSpent == t - startTime IN
    IF timeSpent <= fastTime THEN maxBonus
    ELSE IF timeSpent <= fastTime * 2 THEN maxBonus \div 2
    ELSE 0

puzzleOf(cp) == puzzlesOf(cp.chamberId)[cp.puzzleIndex + 1]

\* mutant: the score is not floored at 1
finalScoreNoFloor(cp, t) ==
    puzzleOf(cp).points + calculateTimeBonus(cp.startTime, t)
        - cp.hintsUsed * 2 - (cp.attempts - 1)

\* finalScore of handleCorrectAnswer, for the attempt cp at time t
finalScore(cp, t) ==
    LET timeBonus == calculateTimeBonus(cp.startTime, t)
        hintPenalty == cp.hintsUsed * 2
        attemptPenalty == (cp.attempts - 1) * 1
        basePoints == IF puzzleOf(cp).points = 0 THEN 10 ELSE puzzleOf(cp).points
    IN Max(1, basePoints + timeBonus - hintPenalty - attemptPenalty)

\* mutant: every chamber's progress is incremented
handleCorrectAnswerAllChambers(u, ch, cp, t) ==
    LET ch2 == [id \in DOMAIN ch |-> [ch[id] EXCEPT !.progress.completed = @ + 1]]
        u2 == [u EXCEPT !.totalSolved = @ + 1, !.currentStreak = @ + 1]
    IN [user |-> addXP(u2, ch2, finalScore(cp, t)), chambers |-> ch2]

\* the progress update of handleCorrectAnswer: completed++, totalSolved++,
\* currentStreak++, addXP(finalScore)
handleCorrectAnswer(u, ch, cp, t) ==
    LET ch2 == [ch EXCEPT ![cp.chamberId].progress.completed = @ + 1]
        u2 == [u EXCEPT !.totalSolved = @ + 1, !.currentStreak = @ + 1]
    IN [user |-> addXP(u2, ch2, finalScore(cp, t)), chambers |-> ch2]

\* mutant: logEvent() raises before the profile's counters are incremented
handleCorrectAnswerInterruptedEarly(u, ch, cp, t) ==
    LET ch2 == [ch EXCEPT ![cp.chamberId].progress.completed = @ + 1]
    IN [user |-> u, chambers |-> ch2]

\* the progress update of handleCorrectAnswer when logEvent() raises
handleCorrectAnswerInterrupted(u, ch, cp, t) ==
    LET ch2 == [ch EXCEPT ![cp.chamberId].progress.completed = @ + 1]
        u2 == [u EXCEPT !.totalSolved = @ + 1, !.currentStreak = @ + 1]
    IN [user |-> addXPInterrupted(u2, ch2, finalScore(cp, t)), chambers |-> ch2]

\* mutant: the streak is reset by the second failure already
handleIncorrectAnswerAtTwo(u, cp) ==
    IF cp.attempts >= 2 THEN [u EXCEPT !.currentStreak = 0] ELSE u

\* the profile update of handleIncorrectAnswer: the streak is reset on
\* multiple failures
handleIncorrectAnswer(u, cp) ==
    IF cp.attempts >= 3 THEN [u EXCEPT !.currentStreak = 0] ELSE u

\* validateAnswer: every catalogue answer is a number
validateAnswer(userAnswer, correctAnswer) == userAnswer = correctAnswer

----------------------------------------------------------------------------
\* Persistence

\* The text in localStorage is modelled by the JSON tree it denotes. A node is
\* [t, d, s, m]: t its type, d the decimal digits of a number, s the text of a
\* string, the sign of a number or the literal of a boolean, m the members of an
\* object ([k |-> key, v |-> node]) or the items of an array (k = "").
JNode(t, d, s, m) == [t |-> t, d |-> d, s |-> s, m |-> m]

\* a text JSON.parse() rejects
JSyntaxError == JNode("syntax-error", <<>>, "", <<>>)
JNull == JNode("null", <<>>, "", <<>>)
\* what reading a property that is not there gives
JUndefined == JNode("undefined", <<>>, "", <<>>)
JString(str) == JNode("string", <<>>, str, <<>>)
JBoolean(b) == JNode("boolean", <<>>, IF b THEN "true" ELSE "false", <<>>)
JArray(items) == JNode("array", <<>>, "", [i \in DOMAIN items |-> [k |-> "", v |-> items[i]]])
JObject(members) == JNode("object", <<>>, "", members)

\* the decimal digits of n >= 0
RECURSIVE Digits(_)
Digits(n) == IF n < 10 THEN <<n>> ELSE Append(Digits(n \div 10), n % 10)

\* JSON.stringify of an integer
stringifyNumber(n) ==
    JNode("number", Digits(IF n < 0 THEN 0 - n ELSE n), IF n < 0 THEN "-" ELSE "", <<>>)

\* the value of a sequence of decimal digits
RECURSIVE DigitsValue(_)
DigitsValue(d) ==
    IF d = <<>> THEN 0 ELSE 10 * DigitsValue(SubSeq(d, 1, Len(d) - 1)) + d[Len(d)]

\* JSON.parse of a number
parseNumber(node) == IF node.s = "-" THEN 0 - DigitsValue(node.d) ELSE DigitsValue(node.d)

\* the property order of the objects the program builds
userKeys == <<"level", "xp", "xpToNext", "totalSolved", "currentStreak", "chambersUnlocked">>
settingsKeys == <<"soundEffects", "autoHints", "highContrast", "reducedMotion", "fontSize">>
chamberKeys == <<"unlockLevel", "puzzleCount", "progress">>
progressKeys == <<"completed">>

\* the keys of keys the object obj has, in order
ownKeys(obj, keys) == SelectSeq(keys, LAMBDA k : k \in DOMAIN obj)

\* JSON.stringify of an object whose properties are integers
stringifyNumbers(obj, keys) ==
    LET ks == ownKeys(obj, keys) IN
    JObject([i \in DOMAIN ks |-> [k |-> ks[i], v |-> stringifyNumber(obj[ks[i]])]])

\* JSON.stringify of gameState.settings: four booleans and the string fontSize
stringifySettings(st) ==
    LET ks == ownKeys(st, settingsKeys) IN
    JObject([i \in DOMAIN ks |->
        [k |-> ks[i],
         v |-> IF ks[i] = "fontSize" THEN JString(st[ks[i]]) ELSE JBoolean(st[ks[i]])]])

\* JSON.stringify of a chamber (the fields of it the model keeps)
stringifyChamber(c) ==
    LET ks == ownKeys(c, chamberKeys) IN
    JObject([i \in DOMAIN ks |->
        [k |-> ks[i],
         v |-> IF ks[i] = "progress" THEN stringifyNumbers(c.progress, progressKeys)
               ELSE stringifyNumber(c[ks[i]])]])

\* JSON.stringify(Array.from(chambers.entries())): [[id, chamber], ...] in Map order
stringifyEntries(ch, order) ==
    JArray([i \in DOMAIN order |-> JArray(<<JString(order[i]), stringifyChamber(ch[order[i]])>>)])

\* mutant: the settings are left out of the saved text
saveBlobWithoutSettings(u, st, ch, order, t) ==
    JObject(<<[k |-> "user", v |-> stringifyNumbers(u, userKeys)],
              [k |-> "chambers", v |-> stringifyEntries(ch, order)],
              [k |-> "lastSaved", v |-> stringifyNumber(t)]>>)

\* the text saveGameData() writes at time t
saveBlob(u, st, ch, order, t) ==
    JObject(<<[k |-> "user", v |-> stringifyNumbers(u, userKeys)],
              [k |-> "settings", v |-> stringifySettings(st)],
              [k |-> "chambers", v |-> stringifyEntries(ch, order)],
              [k |-> "lastSaved", v |-> stringifyNumber(t)]>>)

\* node[key]: the last member of that key of an object, undefined otherwise
member(node, key) ==
    IF node.t = "object" /\ \E i \in DOMAIN node.m : node.m[i].k = key
    THEN node.m[CHOOSE i \in DOMAIN node.m :
                    /\ node.m[i].k = key
                    /\ \A j \in DOMAIN node.m : node.m[j].k = key => j <= i].v
    ELSE JUndefined

\* the JavaScript value of a parsed scalar
jsValue(node) ==
    CASE node.t = "number" -> parseNumber(node)
      [] node.t = "boolean" -> node.s = "true"
      [] node.t = "string" -> node.s
      [] OTHER -> node

\* the own properties { ...node } copies: those of an object; a number, a
\* boolean, null and undefined have none (the index properties of a string or
\* an array are none of the fields the model keeps)
spread(node) ==
    IF node.t = "object"
    THEN [key \in {node.m[i].k : i \in DOMAIN node.m} |-> jsValue(member(node, key))]
    ELSE <<>>

\* { ...defaults, ...saved }
merge(defaults, saved) ==
    [f \in DOMAIN defaults \cup DOMAIN saved |->
        IF f \in DOMAIN saved THEN saved[f] ELSE defaults[f]]

\* if (node): false for undefined, null, false, 0 and ""
truthy(node) ==
    CASE node.t \in {"undefined", "null"} -> FALSE
      [] node.t = "boolean" -> node.s = "true"
      [] node.t = "number" -> parseNumber(node) # 0
      [] node.t = "string" -> node.s # ""
      [] OTHER -> TRUE

\* the chamber a parsed entry value is: the fields the model keeps, where the
\* value has them (none when it is not an object)
jsChamber(node) ==
    IF node.t # "object" THEN <<>>
    ELSE [key \in {node.m[i].k : i \in DOMAIN node.m} \cap {"unlockLevel", "puzzleCount", "progress"} |->
            IF key = "progress"
            THEN LET p == member(node, "progress") IN
                 IF p.t # "object" THEN <<>>
                 ELSE [pk \in {p.m[i].k : i \in DOMAIN p.m} \cap {"completed"} |->
                        jsValue(member(p, pk))]
            ELSE jsValue(member(node, key))]

\* item[n] of an entry: the n-th item of an array, undefined otherwise
entryPart(item, n) ==
    IF item.t = "array" /\ n \in DOMAIN item.m THEN item.m[n].v ELSE JUndefined

\* the key an entry sets: its first part, a string in every text the model reads
entryKey(item) ==
    IF entryPart(item, 1).t = "string" THEN entryPart(item, 1).s ELSE "undefined"

\* new Map(node) raises unless node is an array whose items are all objects (arrays included)
newMapRaises(node) ==
    \/ node.t # "array"
    \/ \E i \in DOMAIN node.m : node.m[i].v.t \notin {"array", "object"}

\* the key order of new Map(node): the keys in order of their first entry
RECURSIVE newMapOrder(_, _)
newMapOrder(items, seen) ==
    IF items = <<>> THEN <<>>
    ELSE LET key == entryKey(Head(items).v) IN
         IF key \in seen THEN newMapOrder(Tail(items), seen)
         ELSE <<key>> \o newMapOrder(Tail(items), seen \cup {key})

\* the values of new Map(node): the entries are set in order, so that each
\* key maps to its last entry's value
RECURSIVE newMapValues(_, _)
newMapValues(items, map) ==
    IF items = <<>> THEN map
    ELSE newMapValues(Tail(items),
            (entryKey(Head(items).v) :> jsChamber(entryPart(Head(items).v, 2))) @@ map)

newMap(node) == newMapValues(node.m, <<>>)

\* loadGameData(): user, settings, chambers and the Map order after reading the
\* store. Whatever is raised is caught; the assignments made before stay.
loadGameData(store, u, st, ch, order) ==
    LET kept == [user |-> u, settings |-> st, chambers |-> ch, chamberOrder |-> order] IN
    IF store = <<>> THEN kept
    ELSE LET data == store[1] IN
         IF data.t \in {"syntax-error", "null"} THEN kept
         ELSE LET merged == [kept EXCEPT !.user = merge(u, spread(member(data, "user"))),
                                         !.settings = merge(st, spread(member(data, "settings")))]
                  saved == member(data, "chambers")
              IN IF truthy(saved) /\ ~newMapRaises(saved)
                 THEN [merged EXCEPT !.chambers = newMap(saved),
                                     !.chamberOrder = newMapOrder(saved.m, {})]
                 ELSE merged

definitionOf(id) == CHOOSE d \in {chamberDefinitions[i] : i \in DOMAIN chamberDefinitions} : d.id = id

definitionIds == [i \in DOMAIN chamberDefinitions |-> chamberDefinitions[i].id]

\* initializeChambers(): every defined chamber the Map lacks is added, in the
\* order of the definitions, with progress.completed = 0
initializeChambers(ch, order) ==
    [chambers |->
        [id \in DOMAIN ch \cup ChamberIds |->
            IF id \in DOMAIN ch THEN ch[id]
            ELSE [unlockLevel |-> definitionOf(id).unlockLevel,
                  puzzleCount |-> definitionOf(id).puzzleCount,
                  progress |-> [completed |-> 0]]],
     chamberOrder |-> order \o SelectSeq(definitionIds, LAMBDA id : id \notin DOMAIN ch)]

defaultSettings ==
    [soundEffects |-> TRUE, autoHints |-> FALSE, highContrast |-> FALSE,
     reducedMotion |-> FALSE, fontSize |-> "medium"]

\* the state the constructor and init() build from the store
construct(store) ==
    LET loaded == loadGameData(store, defaultUser, defaultSettings, <<>>, <<>>)
        filled == initializeChambers(loaded.chambers, loaded.chamberOrder)
    IN [user |-> loaded.user, settings |-> loaded.settings,
        chambers |-> filled.chambers, chamberOrder |-> filled.chamberOrder]

\* What an earlier session leaves in the store: the player entered
\* pattern-recognition on a fresh profile and answered its puzzles in order
\* (enterChamber starts at index progress.completed), each at the first
\* attempt, without hints, within the fast time, until n were solved.
earlierStep(s) ==
    LET r == handleCorrectAnswer(s.user, s.chambers,
                [chamberId |-> "pattern-recognition",
                 puzzleIndex |-> s.chambers["pattern-recognition"].progress.completed,
                 startTime |-> 0, hintsUsed |-> 0, attempts |-> 1], 0)
    IN [s EXCEPT !.user = r.user, !.chambers = r.chambers]

RECURSIVE answerInOrder(_, _)
answerInOrder(s, n) ==
    IF s.chambers["pattern-recognition"].progress.completed >= n THEN s
    ELSE answerInOrder(earlierStep(s), n)

earlierSession(n) == answerInOrder(construct(<<>>), n)

earlierStore(n) ==
    IF n = 0 THEN <<>>
    ELSE LET s == earlierSession(n) IN
         <<saveBlob(s.user, s.settings, s.chambers, s.chamberOrder, 0)>>

\* the sessions the model starts after: none, and one that stopped before
\* the last puzzle of pattern-recognition
EarlierSolved == {0, Len(PuzzleGenerators["pattern-recognition"]) - 1}

----------------------------------------------------------------------------
\* The state after construction

\* this.currentScreen = null
NoScreen == "null"

\* the screens the callers name; each has its element <name>-screen
Screens == {"welcome", "chambers", "puzzle"}

\* the URLs the install handler caches
FILES_TO_CACHE ==
    {"/", "/index.html", "/css/style.css", "/js/app.js", "/manifest.json",
     "/icons/icon-192x192.png", "/icons/icon-512x512.png"}

\* the state of what surrounds the game when the page has loaded
InitElsewhere ==
    /\ resetDone = FALSE
    \* new AnalyticsManager(): events = [] and init(), whose startSession() logs
    \* the first event, on a store without events
    /\ events = <<"session_start">>
    /\ storedEvents = <<"session_start">>
    /\ optedOut = FALSE
    \* new ScreenManager(game): no screen shown yet, no element has a class
    /\ currentScreen = NoScreen
    /\ screenHistory = <<>>
    /\ screenClasses = [screen \in Screens |-> {}]
    /\ timers = <<>>
    /\ callLog = <<>>
    /\ displayLog = <<>>
    \* the service worker is installed: cache.addAll(FILES_TO_CACHE) is done
    /\ staticCache = FILES_TO_CACHE
    /\ dataCache = {}
    /\ lastFetch = <<>>

InitFrom(store) ==
    /\ InitElsewhere
    /\ storage = store
    /\ user = construct(store).user
    /\ settings = construct(store).settings
    /\ chambers = construct(store).chambers
    /\ chamberOrder = construct(store).chamberOrder
    /\ sinkFails = FALSE
    /\ loadingComplete = TRUE
    /\ currentChamber = NoChamber
    /\ currentPuzzle = <<>>
    /\ analytics = defaultAnalytics
    /\ now = 0
    /\ toast = ""
    /\ feedback = <<>>
    /\ enteredAt = 0
    /\ chamberComplete = FALSE

Init == \E n \in EarlierSolved : InitFrom(earlierStore(n))

----------------------------------------------------------------------------
\* Session controller

NotUnlockedMessage == "This chamber is not yet unlocked."
AllCompletedMessage == "All puzzles in this chamber are completed!"
PuzzleNotFoundMessage == "Puzzle not found."
ChamberCompletedMessage == "Chamber completed! Well done!"
NoMoreHintsMessage == "No more hints available!"
FailedToLoadMessage == "Failed to load game. Please refresh the page."

\* handleIncorrectAnswer shows one of four encouragements, picked by
\* Math.random(); no operation reads which, and the model keeps one message
\* for the four
EncouragementMessage == "Not quite right, but you're thinking logically!"

\* the chambers the model's callers name: two with a catalogue (unlocked at
\* level 1 and at level 3), one without (unlocked at level 5), the last one
\* defined, and one that does not exist
ChamberInputs ==
    {"pattern-recognition", "spatial-reasoning", "deductive-reasoning", "meta-reasoning",
     "no-such-chamber"}

\* mutant: the counters of the previous attempt are carried over
startPuzzleKeepsCounters(chamberId, puzzleIndex) ==
    IF puzzleIndex + 1 \notin DOMAIN puzzlesOf(chamberId)
    THEN /\ toast' = PuzzleNotFoundMessage
         /\ UNCHANGED <<currentPuzzle, enteredAt, chamberComplete>>
    ELSE /\ currentPuzzle' =
                <<[chamberId |-> chamberId,
                   puzzleIndex |-> puzzleIndex,
                   startTime |-> now,
                   hintsUsed |-> IF currentPuzzle = <<>> THEN 0 ELSE currentPuzzle[1].hintsUsed,
                   attempts |-> IF currentPuzzle = <<>> THEN 0 ELSE currentPuzzle[1].attempts]>>
         /\ enteredAt' = chambers[chamberId].progress.completed
         /\ chamberComplete' = FALSE
         /\ UNCHANGED toast

\* startPuzzle(chamberId, puzzleIndex): sets currentPuzzle and toast (and the history)
startPuzzle(chamberId, puzzleIndex) ==
    IF puzzleIndex + 1 \notin DOMAIN puzzlesOf(chamberId)
    THEN /\ toast' = PuzzleNotFoundMessage
         /\ UNCHANGED <<currentPuzzle, enteredAt, chamberComplete>>
    ELSE /\ currentPuzzle' = <<[chamberId |-> chamberId,
                                puzzleIndex |-> puzzleIndex,
                                startTime |-> now,
                                hintsUsed |-> 0,
                                attempts |-> 0]>>
         /\ enteredAt' = chambers[chamberId].progress.completed
         /\ chamberComplete' = FALSE
         /\ UNCHANGED toast

\* mutant: currentChamber is set before the unlock check
EnterChamberSetsFirst(chamberId) ==
    IF chamberId \notin DOMAIN chambers \/ chambers[chamberId].unlockLevel > user.level
    THEN /\ toast' = NotUnlockedMessage
         /\ currentChamber' = chamberId
         /\ UNCHANGED <<user, chambers, currentPuzzle, analytics, now, settings, chamberOrder,
                        sinkFails, loadingComplete, feedback, storage, enteredAt,
                        chamberComplete, elsewhere>>
    ELSE /\ currentChamber' = chamberId
         /\ LET nextPuzzleIndex == chambers[chamberId].progress.completed IN
            IF nextPuzzleIndex < Len(puzzlesOf(chamberId))
            THEN startPuzzle(chamberId, nextPuzzleIndex)
            ELSE /\ toast' = AllCompletedMessage
                 /\ UNCHANGED <<currentPuzzle, enteredAt, chamberComplete>>
         /\ UNCHANGED <<user, chambers, analytics, now, settings, chamberOrder, sinkFails,
                        loadingComplete, feedback, storage, elsewhere>>

\* enterChamber(chamberId)
EnterChamber(chamberId) ==
    IF chamberId \notin DOMAIN chambers \/ chambers[chamberId].unlockLevel > user.level
    THEN /\ toast' = NotUnlockedMessage
         /\ UNCHANGED <<user, chambers, currentChamber, currentPuzzle, analytics, now, settings,
                        chamberOrder, sinkFails, loadingComplete, feedback, storage, enteredAt,
                        chamberComplete, elsewhere>>
    ELSE /\ currentChamber' = chamberId
         /\ LET nextPuzzleIndex == chambers[chamberId].progress.completed IN
            IF nextPuzzleIndex < Len(puzzlesOf(chamberId))
            THEN startPuzzle(chamberId, nextPuzzleIndex)
            ELSE /\ toast' = AllCompletedMessage
                 /\ UNCHANGED <<currentPuzzle, enteredAt, chamberComplete>>
         /\ UNCHANGED <<user, chambers, analytics, now, settings, chamberOrder, sinkFails,
                        loadingComplete, feedback, storage, elsewhere>>

\* checkAnswer() with getCurrentAnswer() = userAnswer
CheckAnswer(userAnswer) ==
    IF currentPuzzle = <<>> \/ userAnswer = NoAnswer
    THEN UNCHANGED vars
    ELSE
        /\ LET cp == [currentPuzzle[1] EXCEPT !.attempts = @ + 1] IN
           /\ currentPuzzle' = <<cp>>
           /\ analytics' = [analytics EXCEPT !.puzzleAttempts = @ + 1]
           /\ IF validateAnswer(userAnswer, puzzleOf(cp).correctAnswer)
              THEN \* handleCorrectAnswer()
                   \* when logEvent() raises, in addXP at a level-up or else after
                   \* showFeedback(), what follows it is not run
                   LET r == IF sinkFails
                            THEN handleCorrectAnswerInterrupted(user, chambers, cp, now)
                            ELSE handleCorrectAnswer(user, chambers, cp, now)
                   IN
                   /\ user' = r.user
                   /\ chambers' = r.chambers
                   /\ toast' = toastAfterXP(user, r.user, toast)
                   /\ feedback' = IF sinkFails /\ r.user.level # user.level
                                  THEN feedback
                                  ELSE <<finalScore(cp, now)>>
                   /\ storage' = IF sinkFails
                                 THEN storage
                                 ELSE <<saveBlob(r.user, settings, r.chambers, chamberOrder, now)>>
              ELSE \* handleIncorrectAnswer()
                   /\ user' = handleIncorrectAnswer(user, cp)
                   /\ toast' = EncouragementMessage
                   /\ UNCHANGED <<chambers, feedback, storage>>
        /\ UNCHANGED <<currentChamber, now, settings, chamberOrder, sinkFails, loadingComplete,
                       enteredAt, chamberComplete, elsewhere>>

\* mutant: the session's hint counter is incremented before the attempt is looked at
ShowHintCountsFirst ==
    IF currentPuzzle = <<>>
    THEN /\ analytics' = [analytics EXCEPT !.hintsUsed = @ + 1]
         /\ UNCHANGED <<user, chambers, currentChamber, currentPuzzle, now, settings,
                        chamberOrder, sinkFails, loadingComplete, toast, feedback, storage,
                        enteredAt, chamberComplete, elsewhere>>
    ELSE /\ currentPuzzle' = <<[currentPuzzle[1] EXCEPT !.hintsUsed = @ + 1]>>
         /\ analytics' = [analytics EXCEPT !.hintsUsed = @ + 1]
         /\ UNCHANGED <<user, chambers, currentChamber, now, settings, chamberOrder, sinkFails,
                        loadingComplete, toast, feedback, storage, enteredAt, chamberComplete,
                        elsewhere>>

\* showHint()
ShowHint ==
    IF currentPuzzle = <<>>
    THEN UNCHANGED vars
    ELSE LET cp == currentPuzzle[1]
             hints == puzzleOf(cp).hints
             hintIndex == Min(cp.hintsUsed, hints - 1)
         IN
         IF hintIndex >= hints
         THEN /\ toast' = NoMoreHintsMessage
              /\ UNCHANGED <<user, chambers, currentChamber, currentPuzzle, analytics, now,
                             settings, chamberOrder, sinkFails, loadingComplete, feedback,
                             storage, enteredAt, chamberComplete, elsewhere>>
         ELSE /\ currentPuzzle' = <<[cp EXCEPT !.hintsUsed = @ + 1]>>
              /\ analytics' = [analytics EXCEPT !.hintsUsed = @ + 1]
              /\ UNCHANGED <<user, chambers, currentChamber, now, settings, chamberOrder,
                             sinkFails, loadingComplete, toast, feedback, storage, enteredAt,
                             chamberComplete, elsewhere>>

\* mutant: the timer is not restarted
ResetPuzzleKeepsTimer ==
    /\ currentPuzzle' = IF currentPuzzle = <<>> THEN <<>>
                        ELSE <<[currentPuzzle[1] EXCEPT !.attempts = 0,
                                                        !.hintsUsed = 0]>>
    /\ UNCHANGED <<user, chambers, currentChamber, analytics, now, settings, chamberOrder,
                   sinkFails, loadingComplete, toast, feedback, storage, enteredAt,
                   chamberComplete, elsewhere>>

\* resetPuzzle()
ResetPuzzle ==
    /\ currentPuzzle' = IF currentPuzzle = <<>> THEN <<>>
                        ELSE <<[currentPuzzle[1] EXCEPT !.attempts = 0,
                                                        !.hintsUsed = 0,
                                                        !.startTime = now]>>
    /\ UNCHANGED <<user, chambers, currentChamber, analytics, now, settings, chamberOrder,
                   sinkFails, loadingComplete, toast, feedback, storage, enteredAt,
                   chamberComplete, elsewhere>>

\* nextPuzzle()
NextPuzzle ==
    IF currentPuzzle = <<>>
    THEN UNCHANGED vars
    ELSE LET cp == currentPuzzle[1]
             nextIndex == cp.puzzleIndex + 1
         IN
         /\ IF nextIndex < Len(puzzlesOf(cp.chamberId))
            THEN startPuzzle(cp.chamberId, nextIndex)
            ELSE /\ toast' = ChamberCompletedMessage
                 /\ chamberComplete' = TRUE
                 /\ UNCHANGED <<currentPuzzle, enteredAt>>
         /\ UNCHANGED <<user, chambers, currentChamber, analytics, now, settings, chamberOrder,
                        sinkFails, loadingComplete, feedback, storage, elsewhere>>

\* the clock moves on to the instant t
Tick(t) ==
    /\ t > now
    /\ now' = t
    /\ UNCHANGED <<user, chambers, currentChamber, currentPuzzle, analytics, toast, feedback,
                   storage, settings, chamberOrder, sinkFails, loadingComplete, enteredAt,
                   chamberComplete, elsewhere>>

\* how far the live attempt's index is ahead of its chamber's progress.completed
ahead ==
    IF currentPuzzle = <<>> THEN 0
    ELSE currentPuzzle[1].puzzleIndex
            - chambers[currentPuzzle[1].chamberId].progress.completed

\* addXP(amount) called directly
AddXP(amount) ==
    /\ user' = IF sinkFails THEN addXPInterrupted(user, chambers, amount)
                ELSE addXP(user, chambers, amount)
    /\ toast' = toastAfterXP(user, user', toast)
    /\ UNCHANGED <<chambers, currentChamber, currentPuzzle, analytics, now, settings,
                   chamberOrder, sinkFails, loadingComplete, feedback, storage, enteredAt,
                   chamberComplete, elsewhere>>

\* saveGameData() called by the 30 s timer or on beforeunload
SaveGameData ==
    /\ storage' = <<saveBlob(user, settings, chambers, chamberOrder, now)>>
    /\ UNCHANGED <<user, chambers, currentChamber, currentPuzzle, analytics, now, settings,
                   chamberOrder, sinkFails, loadingComplete, toast, feedback, enteredAt,
                   chamberComplete, elsewhere>>

\* the values of the font-size select
FontSizes == {"small", "medium", "large"}

\* the values a settings control can give to its setting
SettingValues(key) == IF key = "fontSize" THEN FontSizes ELSE BOOLEAN

\* the change handler of a settings control: the setting is assigned and the game saved
ChangeSetting(key, value) ==
    /\ settings' = [settings EXCEPT ![key] = value]
    /\ storage' = <<saveBlob(user, settings', chambers, chamberOrder, now)>>
    /\ UNCHANGED <<user, chambers, currentChamber, currentPuzzle, analytics, now, chamberOrder,
                   sinkFails, loadingComplete, toast, feedback, enteredAt, chamberComplete,
                   elsewhere>>

\* the settings that differ from their defaults
changedSettings == {key \in DOMAIN defaultSettings : settings[key] # defaultSettings[key]}

\* updateUnlockedChambers() called directly
UpdateUnlockedChambers ==
    /\ user' = updateUnlockedChambers(user, chambers)
    /\ UNCHANGED <<chambers, currentChamber, currentPuzzle, analytics, now, settings,
                   chamberOrder, sinkFails, loadingComplete, toast, feedback, storage,
                   enteredAt, chamberComplete, elsewhere>>

\* sessionStorage starts to raise (its quota is reached, or access to it is denied)
SinkFails ==
    /\ ~sinkFails
    /\ sinkFails' = TRUE
    /\ UNCHANGED <<user, chambers, currentChamber, currentPuzzle, analytics, now, settings,
                   chamberOrder, loadingComplete, toast, feedback, storage, enteredAt,
                   chamberComplete, elsewhere>>

ProgressResetMessage == "Progress reset. Please refresh the page."

\* ScreenManager.confirmResetProgress(): when the player confirms, the saved
\* game is removed from the store and the player is told to refresh the page;
\* the state of the running game is not touched
ConfirmResetProgress(confirmed) ==
    /\ storage' = IF confirmed THEN <<>> ELSE storage
    /\ toast' = IF confirmed THEN ProgressResetMessage ELSE toast
    /\ resetDone' = (confirmed \/ resetDone)
    /\ UNCHANGED <<user, chambers, currentChamber, currentPuzzle, analytics, now, settings,
                   chamberOrder, sinkFails, loadingComplete, feedback, enteredAt,
                   chamberComplete, apart>>

\* The page is refreshed: the beforeunload listener saves the running game,
\* then the new page constructs the game and init() loads the store
Reload ==
    LET saved == <<saveBlob(user, settings, chambers, chamberOrder, now)>>
    IN /\ storage' = saved
       /\ user' = construct(saved).user
       /\ settings' = construct(saved).settings
       /\ chambers' = construct(saved).chambers
       /\ chamberOrder' = construct(saved).chamberOrder
       /\ loadingComplete' = TRUE
       /\ currentChamber' = NoChamber
       /\ currentPuzzle' = <<>>
       /\ analytics' = defaultAnalytics
       /\ toast' = IF sinkFails THEN FailedToLoadMessage ELSE ""
       /\ feedback' = <<>>
       /\ enteredAt' = 0
       /\ chamberComplete' = FALSE
       /\ resetDone' = FALSE
       /\ UNCHANGED <<now, sinkFails, apart>>

----------------------------------------------------------------------------
\* Analytics (class AnalyticsManager of src/js/utils/accessibility.js)

\* storeEventLocally keeps the last 1000 stored events
storedLimit == 1000

\* the events the listeners of the page log: a click, an uncaught error;
\* processLearningEvent has no case for either
EventNames == {"interaction_click", "javascript_error"}

\* storeEventLocally(event): the event is pushed to the stored list, of which
\* the last storedLimit are kept
storeEventLocally(stored, eventName) ==
    LET pushed == Append(stored, eventName)
    IN IF Len(pushed) > storedLimit
       THEN SubSeq(pushed, Len(pushed) - storedLimit + 1, Len(pushed))
       ELSE pushed

\* logEvent(eventName, data): the event is pushed to this.events and stored
LogEvent(eventName) ==
    /\ events' = Append(events, eventName)
    /\ storedEvents' = storeEventLocally(storedEvents, eventName)
    /\ UNCHANGED <<besideTracker, optedOut>>

\* flushEvents(), called by the 30 s timer and on beforeunload: the list is emptied
FlushEvents ==
    /\ events' = <<>>
    /\ UNCHANGED <<besideTracker, storedEvents, optedOut>>

\* optOut(): the opt-out is stored and the list emptied
OptOut ==
    /\ optedOut' = TRUE
    /\ events' = <<>>
    /\ UNCHANGED <<besideTracker, storedEvents>>

\* optIn(): the opt-out is removed and init() run again, whose startSession()
\* logs session_start
OptIn ==
    /\ optedOut' = FALSE
    /\ events' = Append(events, "session_start")
    /\ storedEvents' = storeEventLocally(storedEvents, "session_start")
    /\ UNCHANGED besideTracker

----------------------------------------------------------------------------
\* Screens (class ScreenManager)

\* the values of the transition option
Transitions == {"fade", "none"}

\* showScreen(screenName, {transition, saveHistory}) with the history list
\* history. The current screen is pushed to the history and hidden:
\* hideScreen() marks it screen-exit and sets a timer of transitionDuration / 2
\* that removes active and screen-exit. The new screen is displayed by a
\* timer of the same delay, which runs after every pending timer, or of 0
\* when transition is 'none', which runs after the first due of the pending
\* timers, those that are already due.
showScreen(screenName, transition, saveHistory, history, due) ==
    LET hides == currentScreen # NoScreen
        removal == IF hides THEN <<[kind |-> "remove", screen |-> currentScreen]>> ELSE <<>>
        display == <<[kind |-> "display", screen |-> screenName]>>
    IN /\ screenHistory' = IF saveHistory /\ currentScreen # NoScreen
                             THEN Append(history, currentScreen)
                             ELSE history
       /\ screenClasses' = IF hides
                             THEN [screenClasses EXCEPT ![currentScreen] = @ \cup {"screen-exit"}]
                             ELSE screenClasses
       /\ timers' = IF transition = "none"
                      THEN SubSeq(timers, 1, due) \o display
                                \o SubSeq(timers, due + 1, Len(timers)) \o removal
                      ELSE timers \o removal \o display
       /\ callLog' = Append(callLog, [screen |-> screenName, saveHistory |-> saveHistory])
       /\ UNCHANGED <<currentScreen, displayLog, besideScreens>>

\* showScreen() called by a handler of the page
ShowScreen(screenName, transition, saveHistory, due) ==
    /\ due \in 0..Len(timers)
    /\ transition = "fade" => due = Len(timers)
    /\ showScreen(screenName, transition, saveHistory, screenHistory, due)

\* goBack(): the last screen of the history is popped and shown, without
\* being saved to the history
GoBack ==
    IF screenHistory # <<>>
    THEN showScreen(screenHistory[Len(screenHistory)], "fade", FALSE,
                    SubSeq(screenHistory, 1, Len(screenHistory) - 1), Len(timers))
    ELSE UNCHANGED vars

\* the next timer runs: the callback of hideScreen, the callback of showScreen
\* (displayScreen, which sets the timer that removes screen-enter, and
\* currentScreen = screenName), or the callback of displayScreen
FireTimer ==
    /\ timers # <<>>
    /\ LET timer == Head(timers) IN
       IF timer.kind = "remove"
       THEN /\ screenClasses' = [screenClasses EXCEPT
                                    ![timer.screen] = @ \ {"active", "screen-exit"}]
            /\ timers' = Tail(timers)
            /\ UNCHANGED <<currentScreen, displayLog>>
       ELSE IF timer.kind = "display"
       THEN /\ screenClasses' = [screenClasses EXCEPT
                                    ![timer.screen] = @ \cup {"active", "screen-enter"}]
            /\ timers' = Append(Tail(timers), [kind |-> "entered", screen |-> timer.screen])
            /\ currentScreen' = timer.screen
            /\ displayLog' = Append(displayLog, timer.screen)
       ELSE /\ screenClasses' = [screenClasses EXCEPT ![timer.screen] = @ \ {"screen-enter"}]
            /\ timers' = Tail(timers)
            /\ UNCHANGED <<currentScreen, displayLog>>
    /\ UNCHANGED <<screenHistory, callLog, besideScreens>>

----------------------------------------------------------------------------
\* Service worker (the fetch listener and its three handlers)

\* '/api/', '/puzzles/', '/progress/'
DATA_URLS == {"api", "puzzles", "progress"}

\* isDataRequest(url): the URL includes '/api/', '/puzzles/' or '/progress/',
\* that is, one of the segments of its path but the last is one of the three
\* names
isDataRequest(path) == \E i \in 1..(Len(path) - 1) : path[i] \in DATA_URLS

\* the requests the pages make: url, the segments of its path, mode and
\* destination
Requests ==
    {[url |-> "/api/stats", path |-> <<"api", "stats">>,
      mode |-> "cors", destination |-> ""],
     [url |-> "/progress/export", path |-> <<"progress", "export">>,
      mode |-> "navigate", destination |-> "document"],
     [url |-> "/puzzles", path |-> <<"puzzles">>,
      mode |-> "navigate", destination |-> "document"],
     [url |-> "/index.html", path |-> <<"index.html">>,
      mode |-> "navigate", destination |-> "document"],
     [url |-> "/css/style.css", path |-> <<"css", "style.css">>,
      mode |-> "no-cors", destination |-> "style"],
     [url |-> "/js/chambers.js", path |-> <<"js", "chambers.js">>,
      mode |-> "no-cors", destination |-> "script"],
     [url |-> "/icons/badge.png", path |-> <<"icons", "badge.png">>,
      mode |-> "no-cors", destination |-> "image"]}

\* what fetch(request) does: it rejects (0), or resolves with a response of a status
NetworkFailure == 0
NetworkOutcomes == {NetworkFailure, 200, 404}

\* a response: where it comes from, its status and what its body is (the URL
\* it was fetched or cached for, or the text generated)
Response(source, status, body) == [source |-> source, status |-> status, body |-> body]

\* the result of a handler: the response, whether fetch() was called, the two caches
Handled(response, contacted, static, data) ==
    [response |-> response, contacted |-> contacted, staticCache |-> static, dataCache |-> data]

\* handleDataRequest(request): the network first, a 200 response is put in
\* the data cache; when fetch rejects, caches.match(request) over both caches,
\* then a 503 with the JSON body {error, message, offline: true}
handleDataRequest(request, network, static, data) ==
    IF network # NetworkFailure
    THEN Handled(Response("network", network, request.url), TRUE, static,
                 IF network = 200 THEN data \cup {request.url} ELSE data)
    ELSE IF request.url \in static \cup data
    THEN Handled(Response("cache", 200, request.url), TRUE, static, data)
    ELSE Handled(Response("generated", 503, "offline-json"), TRUE, static, data)

\* handleNavigationRequest(request): the network first; when fetch rejects,
\* the cached /index.html, then the generated offline page with status 200
handleNavigationRequest(request, network, static, data) ==
    IF network # NetworkFailure
    THEN Handled(Response("network", network, request.url), TRUE, static, data)
    ELSE IF "/index.html" \in static
    THEN Handled(Response("cache", 200, "/index.html"), TRUE, static, data)
    ELSE Handled(Response("generated", 200, "offline-page"), TRUE, static, data)

\* mutant: resources go to the network first
handleResourceRequestNetworkFirst(request, network, static, data) ==
    IF network # NetworkFailure
    THEN Handled(Response("network", network, request.url), TRUE,
                 IF network = 200 THEN static \cup {request.url} ELSE static, data)
    ELSE IF request.url \in static
    THEN Handled(Response("cache", 200, request.url), TRUE, static, data)
    ELSE IF request.destination = "image"
    THEN Handled(Response("generated", 200, "fallback-image"), TRUE, static, data)
    ELSE Handled(Response("generated", 503, "Offline"), TRUE, static, data)

\* handleResourceRequest(request): the cache first; on a miss the network, a
\* 200 response is put in the cache; when fetch rejects, the SVG placeholder
\* for an image and a 503 'Offline' otherwise
handleResourceRequest(request, network, static, data) ==
    IF request.url \in static
    THEN Handled(Response("cache", 200, request.url), FALSE, static, data)
    ELSE IF network # NetworkFailure
    THEN Handled(Response("network", network, request.url), TRUE,
                 IF network = 200 THEN static \cup {request.url} ELSE static, data)
    ELSE IF request.destination = "image"
    THEN Handled(Response("generated", 200, "fallback-image"), TRUE, static, data)
    ELSE Handled(Response("generated", 503, "Offline"), TRUE, static, data)

\* the fetch listener: the request goes to the handler of data requests, else
\* of navigations, else of resources, whose response answers it
Fetch(request, network) ==
    LET handled == IF isDataRequest(request.path)
                   THEN handleDataRequest(request, network, staticCache, dataCache)
                   ELSE IF request.mode = "navigate"
                   THEN handleNavigationRequest(request, network, staticCache, dataCache)
                   ELSE handleResourceRequest(request, network, staticCache, dataCache)
    IN /\ staticCache' = handled.staticCache
       /\ dataCache' = handled.dataCache
       /\ lastFetch' = <<[request |-> request, network |-> network,
                          response |-> handled.response, contacted |-> handled.contacted]>>
       /\ UNCHANGED besideWorker

\* the browser evicts the caches of the site, or the player clears its data
ClearSiteData ==
    /\ staticCache' = {}
    /\ dataCache' = {}
    /\ UNCHANGED <<lastFetch, besideWorker>>

----------------------------------------------------------------------------
\* Specifications

\* A session: the operations that select, answer, reset and advance puzzles,
\* in any order, within the bounds. The clock stands still.
Next ==
    \/ \E chamberId \in ChamberInputs : EnterChamber(chamberId)
    \/ \E userAnswer \in Answers :
            /\ analytics.puzzleAttempts < MaxSubmits
            /\ CheckAnswer(userAnswer)
    \/ /\ analytics.hintsUsed < MaxHintCalls
       /\ ShowHint
    \/ ResetPuzzle
    \/ /\ ahead < MaxAhead
       /\ NextPuzzle

Spec == Init /\ [][Next]_vars

\* One attempt: a chamber is entered once, then hints, wrong answers, resets
\* and the passing of time, up to the first correct answer of the session.
NextAttempt ==
    \/ \E chamberId \in ChamberInputs :
            /\ currentPuzzle = <<>>
            /\ EnterChamber(chamberId)
    \/ \E userAnswer \in Answers :
            /\ feedback = <<>>
            /\ analytics.puzzleAttempts < MaxAttempts
            /\ CheckAnswer(userAnswer)
    \/ /\ analytics.hintsUsed < MaxHints
       /\ ShowHint
    \/ ResetPuzzle
    \/ \E t \in Instants : Tick(t)

SpecAttempt == Init /\ [][NextAttempt]_vars

\* The profile: a chamber is entered, its puzzle answered, settings changed
\* and the game saved, in any order, within the bounds.
NextProfile ==
    \/ \E chamberId \in ChamberInputs :
            /\ currentPuzzle = <<>>
            /\ EnterChamber(chamberId)
    \/ \E userAnswer \in Answers :
            /\ analytics.puzzleAttempts < MaxProfileSubmits
            /\ CheckAnswer(userAnswer)
    \/ \E key \in DOMAIN defaultSettings : \E value \in SettingValues(key) :
            /\ Cardinality(changedSettings) < MaxChangedSettings
            /\ ChangeSetting(key, value)
    \/ SaveGameData

SpecProfile == Init /\ [][NextProfile]_vars

\* A session in which the event sink may fail: a chamber is entered, hints are
\* taken, answers given and the game saved by its timer
NextSink ==
    \/ \E chamberId \in ChamberInputs :
            /\ currentPuzzle = <<>>
            /\ EnterChamber(chamberId)
    \/ \E userAnswer \in Answers :
            /\ analytics.puzzleAttempts < MaxAttempts
            /\ CheckAnswer(userAnswer)
    \/ /\ analytics.hintsUsed < MaxHintCalls
       /\ ShowHint
    \/ /\ ahead < MaxAhead
       /\ NextPuzzle
    \/ SaveGameData
    \/ SinkFails

SpecSink == Init /\ [][NextSink]_vars

\* The texts init() may find in the store: none, texts JSON.parse() rejects or
\* reads as something else than an object, and objects whose three sections
\* are each missing, malformed, partial or complete.
UserSections ==
    {JUndefined, JNull, stringifyNumber(5), JObject(<<>>),
     stringifyNumbers([level |-> 3], userKeys),
     stringifyNumbers([xp |-> 50, totalSolved |-> 2], userKeys),
     stringifyNumbers(earlierSession(2).user, userKeys),
     \* numbers no game writes: level 0 with more xp than the level asks for, a
     \* negative xp with a threshold of 0
     stringifyNumbers([level |-> 0, xp |-> 250], userKeys),
     stringifyNumbers([xp |-> 0 - 5, xpToNext |-> 0], userKeys)}

SettingsSections ==
    {JUndefined,
     stringifySettings([soundEffects |-> FALSE]),
     stringifySettings([defaultSettings EXCEPT !.highContrast = TRUE, !.fontSize = "large"])}

ChambersSections ==
    {JUndefined, stringifyNumber(5), JArray(<<>>), JArray(<<stringifyNumber(5)>>),
     JArray(<<JArray(<<JString("pattern-recognition"),
                       stringifyChamber([unlockLevel |-> 1])>>)>>),
     JArray(<<JArray(<<JString("pattern-recognition"),
                       stringifyChamber(earlierSession(2).chambers["pattern-recognition"])>>)>>),
     stringifyEntries(earlierSession(2).chambers, earlierSession(2).chamberOrder)}

\* an object with the sections that are not missing
Blob(u, st, ch) ==
    JObject(SelectSeq(<<[k |-> "user", v |-> u], [k |-> "settings", v |-> st],
                        [k |-> "chambers", v |-> ch]>>,
                      LAMBDA mem : mem.v.t # "undefined"))

Stores ==
    {<<>>, <<JSyntaxError>>, <<JNull>>, <<stringifyNumber(7)>>}
        \cup {<<Blob(u, st, ch)>> : u \in UserSections, st \in SettingsSections,
                                    ch \in ChambersSections}

\* the state the constructor leaves, before init() has run, over any store
InitLoad ==
    /\ InitElsewhere
    /\ storage \in Stores
    /\ user = defaultUser
    /\ settings = defaultSettings
    /\ chambers = <<>>
    /\ chamberOrder = <<>>
    /\ sinkFails = FALSE
    /\ loadingComplete = FALSE
    /\ currentChamber = NoChamber
    /\ currentPuzzle = <<>>
    /\ analytics = defaultAnalytics
    /\ now = 0
    /\ toast = ""
    /\ feedback = <<>>
    /\ enteredAt = 0
    /\ chamberComplete = FALSE

\* init(): loadGameData(), initializeChambers(), loadingComplete = true
InitGame ==
    /\ ~loadingComplete
    /\ user' = construct(storage).user
    /\ settings' = construct(storage).settings
    /\ chambers' = construct(storage).chambers
    /\ chamberOrder' = construct(storage).chamberOrder
    /\ loadingComplete' = TRUE
    \* logEvent('game_initialized') raising is caught and reported
    /\ toast' = IF sinkFails THEN FailedToLoadMessage ELSE toast
    /\ UNCHANGED <<currentChamber, currentPuzzle, analytics, now, feedback, storage, sinkFails,
                   enteredAt, chamberComplete, elsewhere>>

NextLoad == InitGame

SpecLoad == InitLoad /\ [][NextLoad]_vars

\* The progression engine alone: addXP called with any amounts on a fresh profile
InitXP == InitFrom(<<>>)

NextXP == \E amount \in XPAmounts : user.level < MaxLevel /\ AddXP(amount)

SpecXP == InitXP /\ [][NextXP]_vars

\* The progression engine with the unlock count recomputed at any time
NextUnlocks ==
    \/ \E amount \in XPAmounts : user.level < MaxLevel /\ AddXP(amount)
    \/ UpdateUnlockedChambers

SpecUnlocks == InitXP /\ [][NextUnlocks]_vars

\* The profile reset: on a fresh profile a chamber is entered and its puzzle
\* answered, the game saved by its timer, the progress reset from the settings
\* screen, and the page refreshed, at any time
NextReset ==
    \/ \E chamberId \in ChamberInputs :
            /\ currentPuzzle = <<>>
            /\ EnterChamber(chamberId)
    \/ \E userAnswer \in Answers :
            /\ analytics.puzzleAttempts < MaxProfileSubmits
            /\ user.totalSolved < MaxResetSolved
            /\ CheckAnswer(userAnswer)
    \/ SaveGameData
    \/ \E confirmed \in BOOLEAN : ConfirmResetProgress(confirmed)
    \/ Reload

SpecReset == InitXP /\ [][NextReset]_vars

\* The analytics alone: events are logged and flushed, the player opts out and in
NextTracker ==
    \/ \E eventName \in EventNames :
            /\ Len(storedEvents) < MaxStoredEvents
            /\ LogEvent(eventName)
    \/ FlushEvents
    \/ OptOut
    \/ Len(storedEvents) < MaxStoredEvents /\ OptIn

SpecTracker == InitXP /\ [][NextTracker]_vars

\* The screens alone: screens are shown, the player goes back, timers run
NextScreens ==
    \/ \E screenName \in Screens, transition \in Transitions, saveHistory \in BOOLEAN :
        \E due \in 0..Len(timers) :
            /\ Len(callLog) < MaxShows
            /\ ShowScreen(screenName, transition, saveHistory, due)
    \/ Len(callLog) < MaxShows /\ GoBack
    \/ FireTimer

SpecScreens == InitXP /\ [][NextScreens]_vars

\* The service worker alone: requests are intercepted with the network up or
\* down, and the caches may be evicted
NextWorker ==
    \/ \E request \in Requests, network \in NetworkOutcomes : Fetch(request, network)
    \/ ClearSiteData

SpecWorker == InitXP /\ [][NextWorker]_vars

----------------------------------------------------------------------------
\* The claims

\* floor(100 x 1.1^(level-1)), the threshold the specification gives for a level
Threshold(level) == (100 * 11 ^ (level - 1)) \div (10 ^ (level - 1))

\* the sum of the thresholds of the k levels level, level + 1, ...
RECURSIVE SumThresholds(_, _)
SumThresholds(level, k) ==
    IF k <= 0 THEN 0 ELSE Threshold(level) + SumThresholds(level + 1, k - 1)

\* all the XP a profile has received: the thresholds of the levels passed, and xp
TotalXP(u) == u.xp + SumThresholds(1, u.level - 1)

\* the score the specification gives
ClaimTimeBonus(elapsedMs) ==
    IF elapsedMs <= 30000 THEN 5 ELSE IF elapsedMs <= 60000 THEN 2 ELSE 0
ClaimScore(basePoints, elapsedMs, hintsRevealed, attemptsMade) ==
    Max(1, basePoints + ClaimTimeBonus(elapsedMs) - 2 * hintsRevealed - (attemptsMade - 1))

\* progress.completed of the live attempt's chamber
liveCompleted == chambers[currentPuzzle[1].chamberId].progress.completed

\* the live attempt has been answered correctly
liveAnswered == currentPuzzle # <<>> /\ liveCompleted > enteredAt

\* C1: from the fresh profile, after every addXP call with a non-negative
\* amount, xp < xpToNext.
C1_XPBelowThreshold == user.xp < user.xpToNext

\* C1 witness: a call levelled the profile up and left the overflow as xp
C1_Witness == user.level = 2 /\ user.xp = 50 /\ user.xp < user.xpToNext

\* C2: one addXP call performs every level-up the amount pays for: level rises
\* by the largest k whose thresholds old xp + amount covers, xp is what is left
\* after those thresholds, and xpToNext is the threshold of the new level;
\* fresh profile + 150 gives level 2, xp 50, xpToNext 110.
C2_AllLevelUpsInOneCall ==
    [][\A amount \in XPAmounts :
        AddXP(amount) =>
            LET k == user'.level - user.level IN
            /\ k >= 0
            /\ user'.xp = user.xp + amount - SumThresholds(user.level, k)
            /\ user'.xp >= 0
            /\ user'.xp < Threshold(user'.level)
            /\ user'.xpToNext = Threshold(user'.level)
            /\ (user = defaultUser /\ amount = 150) =>
                    (user'.level = 2 /\ user'.xp = 50 /\ user'.xpToNext = 110)]_vars

\* C2 witness: 331 XP on the fresh profile paid for three level-ups at once
C2_Witness ==
    /\ user.level = 4
    /\ user.xp = 0
    /\ user.xpToNext = 133
    /\ toast = LevelUpMessage(4)

\* C3: the XP awarded for a correct answer is
\* max(1, basePoints + timeBonus - 2*hintsRevealed - (attemptsMade - 1)), with
\* timeBonus 5 up to 30000 ms, 2 up to 60000 ms and 0 beyond, and attemptsMade
\* counting the correct submission itself.
C3_ScoreFormula ==
    [][user'.totalSolved # user.totalSolved =>
        LET cp == currentPuzzle'[1]
            score == ClaimScore(puzzleOf(cp).points, now - cp.startTime,
                                cp.hintsUsed, cp.attempts)
        IN /\ cp.attempts = currentPuzzle[1].attempts + 1
           /\ cp.hintsUsed = currentPuzzle[1].hintsUsed
           /\ feedback' = <<score>>
           /\ TotalXP(user') - TotalXP(user) = score]_vars

\* C3 witness: a 10-point puzzle answered at the second attempt, after one
\* hint, exactly 60000 ms after its start: 10 + 2 - 2 - 1 = 9
C3_Witness ==
    /\ currentPuzzle # <<>>
    /\ feedback = <<9>>
    /\ puzzleOf(currentPuzzle[1]).points = 10
    /\ currentPuzzle[1].hintsUsed = 1
    /\ currentPuzzle[1].attempts = 2
    /\ now - currentPuzzle[1].startTime = 60000

\* C4: whatever the hints revealed, the wrong attempts made and the time
\* elapsed, a correct answer awards at least 1 XP.
C4_ScoreFloor ==
    [][user'.totalSolved # user.totalSolved =>
        /\ TotalXP(user') - TotalXP(user) >= 1
        /\ feedback' # <<>>
        /\ feedback'[1] >= 1]_vars

\* C4 witness: the penalties eat the whole score (10 + 0 - 8 - 2 = 0) and 1 XP
\* is awarded
C4_Witness ==
    /\ currentPuzzle # <<>>
    /\ feedback = <<1>>
    /\ puzzleOf(currentPuzzle[1]).points = 10
    /\ currentPuzzle[1].hintsUsed = 4
    /\ currentPuzzle[1].attempts = 3
    /\ now - currentPuzzle[1].startTime > 60000
    /\ user.xp = 1

\* C5: enterChamber starts the attempt at index progress.completed, and between
\* the entry of a puzzle and the advance taken after solving it,
\* progress.completed of its chamber has risen by exactly 1.
C5_SequentialSolving ==
    [][/\ \A c \in ChamberInputs :
            (EnterChamber(c) /\ currentPuzzle' # currentPuzzle) =>
                /\ currentPuzzle'[1].chamberId = c
                /\ currentPuzzle'[1].puzzleIndex = chambers[c].progress.completed
       /\ (liveAnswered /\ NextPuzzle) => liveCompleted = enteredAt + 1]_vars

\* C6: while the live attempt has not been answered correctly, its puzzleIndex
\* is the progress.completed of its chamber.
C6_CatalogOrder ==
    (currentPuzzle # <<>> /\ liveCompleted = enteredAt) =>
        currentPuzzle[1].puzzleIndex = liveCompleted

\* C7: for every chamber, 0 <= progress.completed <= puzzleCount.
C7_CompletedWithinCount ==
    \A id \in DOMAIN chambers :
        /\ 0 <= chambers[id].progress.completed
        /\ chambers[id].progress.completed <= chambers[id].puzzleCount

\* C8: once the live attempt has been answered correctly, a further
\* submitAnswer before advance/enterChamber changes neither progress.completed,
\* totalSolved, currentStreak nor xp.
C8_ScoredOnce ==
    [][(liveAnswered /\ ~chamberComplete) =>
        \A a \in Answers :
            CheckAnswer(a) =>
                /\ chambers' = chambers
                /\ user'.totalSolved = user.totalSolved
                /\ user'.currentStreak = user.currentStreak
                /\ user'.xp = user.xp
                /\ user'.level = user.level]_vars

\* C9: after advancing past the last puzzle of a chamber and until a puzzle is
\* started again, every submitAnswer leaves progress, streak and xp unchanged.
C9_ChamberCompleteRejects ==
    [][chamberComplete =>
        \A a \in Answers : CheckAnswer(a) => UNCHANGED <<user, chambers>>]_vars

\* C10: enterChamber on a chamber whose unlockLevel is greater than the level
\* fails with the not-unlocked message and changes neither the current chamber,
\* the live attempt, the profile nor any chamber's progress.
C10_LockedEntryMutatesNothing ==
    [][\A c \in ChamberInputs :
        (/\ c \in DOMAIN chambers
         /\ chambers[c].unlockLevel > user.level
         /\ EnterChamber(c)) =>
            /\ toast' = NotUnlockedMessage
            /\ UNCHANGED <<user, chambers, currentChamber, currentPuzzle, analytics, feedback,
                           storage>>]_vars

\* C10 witness: the refusal was shown while an attempt was live
C10_Witness ==
    /\ toast = NotUnlockedMessage
    /\ currentPuzzle # <<>>
    /\ currentChamber = currentPuzzle[1].chamberId
    /\ currentPuzzle[1].attempts > 0

\* C11: for every defined chamber with unlockLevel <= level, enterChamber
\* refuses with the all-completed message exactly when progress.completed =
\* puzzleCount, and otherwise makes the puzzle at index progress.completed the
\* live attempt, with attempts = 0 and hintsUsed = 0.
C11_ExhaustedIffAllSolved ==
    [][\A c \in ChamberInputs :
        (/\ c \in DOMAIN chambers
         /\ chambers[c].unlockLevel <= user.level
         /\ EnterChamber(c)) =>
            IF chambers[c].progress.completed = chambers[c].puzzleCount
            THEN toast' = AllCompletedMessage /\ currentPuzzle' = currentPuzzle
            ELSE /\ currentPuzzle' # <<>>
                 /\ currentPuzzle'[1].chamberId = c
                 /\ currentPuzzle'[1].puzzleIndex = chambers[c].progress.completed
                 /\ currentPuzzle'[1].attempts = 0
                 /\ currentPuzzle'[1].hintsUsed = 0]_vars

\* C12: a wrong answer sets currentStreak to 0 if and only if the attempts
\* counted since the attempt was started or last reset, this one included, are
\* 3 or more; with fewer the streak is unchanged. In both cases the same puzzle
\* stays the live attempt, nothing else of the progress changes, and the
\* puzzle can be answered again.
C12_StreakResetAtThree ==
    [][\A a \in Answers :
        (/\ currentPuzzle # <<>>
         /\ a # NoAnswer
         /\ a # puzzleOf(currentPuzzle[1]).correctAnswer
         /\ CheckAnswer(a)) =>
            /\ currentPuzzle' = <<[currentPuzzle[1] EXCEPT !.attempts = @ + 1]>>
            /\ user'.currentStreak =
                    IF currentPuzzle[1].attempts + 1 >= 3 THEN 0 ELSE user.currentStreak
            /\ user' = [user EXCEPT !.currentStreak = user'.currentStreak]
            /\ chambers' = chambers
            /\ currentChamber' = currentChamber]_vars

\* C12 witness: the third wrong answer in a row on the attempt reset a streak
\* of 24, and the puzzle is still the live attempt
C12_Witness ==
    /\ currentPuzzle # <<>>
    /\ currentPuzzle[1].attempts = 3
    /\ analytics.puzzleAttempts = 3
    /\ user.totalSolved = 24
    /\ user.currentStreak = 0
    /\ toast = EncouragementMessage
    /\ liveCompleted = enteredAt

\* C13: in every reachable state the hints revealed on the live attempt do
\* not exceed the number of hints its puzzle has (once they are all revealed,
\* showHint counts nothing more).
C13_HintsWithinLength ==
    currentPuzzle # <<>> =>
        currentPuzzle[1].hintsUsed <= puzzleOf(currentPuzzle[1]).hints

\* C14: resetPuzzle on a live attempt sets attempts and hintsUsed to 0 and
\* startTime to the present time, keeps chamberId and puzzleIndex (hence the
\* puzzle), and leaves the profile (currentStreak, totalSolved, xp, level) and
\* every chamber's progress unchanged.
C14_ResetFrame ==
    [][(currentPuzzle # <<>> /\ ResetPuzzle) =>
        /\ currentPuzzle' # <<>>
        /\ currentPuzzle'[1].attempts = 0
        /\ currentPuzzle'[1].hintsUsed = 0
        /\ currentPuzzle'[1].startTime = now
        /\ currentPuzzle'[1].chamberId = currentPuzzle[1].chamberId
        /\ currentPuzzle'[1].puzzleIndex = currentPuzzle[1].puzzleIndex
        /\ puzzleOf(currentPuzzle'[1]) = puzzleOf(currentPuzzle[1])
        /\ user' = user
        /\ chambers' = chambers]_vars

\* C14 witness: an attempt with wrong answers and hints on it was reset 30 s
\* after it started; the streak of 24 is intact
C14_Witness ==
    /\ currentPuzzle # <<>>
    /\ currentPuzzle[1].attempts = 0
    /\ currentPuzzle[1].hintsUsed = 0
    /\ currentPuzzle[1].startTime = 30000
    /\ now = 30000
    /\ analytics.puzzleAttempts = 2
    /\ analytics.hintsUsed = 1
    /\ user.currentStreak = 24
    /\ feedback = <<>>

\* C15: at most one attempt is live, and an enterChamber or a nextPuzzle that
\* starts a puzzle replaces the previous attempt entirely: the new attempt is
\* the only one, it starts at the present time with attempts = 0 and
\* hintsUsed = 0, whatever the counters of the previous attempt were.
C15_SingleFreshAttempt ==
    [][/\ Len(currentPuzzle') <= 1
       /\ \A c \in ChamberInputs :
            (/\ c \in DOMAIN chambers
             /\ chambers[c].unlockLevel <= user.level
             /\ chambers[c].progress.completed < Len(puzzlesOf(c))
             /\ EnterChamber(c)) =>
                currentPuzzle' = <<[chamberId |-> c,
                                    puzzleIndex |-> chambers[c].progress.completed,
                                    startTime |-> now, hintsUsed |-> 0, attempts |-> 0]>>
       /\ (/\ currentPuzzle # <<>>
           /\ currentPuzzle[1].puzzleIndex + 1 < Len(puzzlesOf(currentPuzzle[1].chamberId))
           /\ NextPuzzle) =>
                currentPuzzle' = <<[chamberId |-> currentPuzzle[1].chamberId,
                                    puzzleIndex |-> currentPuzzle[1].puzzleIndex + 1,
                                    startTime |-> now, hintsUsed |-> 0, attempts |-> 0]>>]_vars

\* C15 witness: a puzzle was solved at the second attempt after a hint, and the
\* attempt started after it in another chamber carries none of those counters
C15_Witness ==
    /\ currentPuzzle # <<>>
    /\ currentPuzzle[1].chamberId = "spatial-reasoning"
    /\ currentPuzzle[1].attempts = 0
    /\ currentPuzzle[1].hintsUsed = 0
    /\ chambers["pattern-recognition"].progress.completed = 25
    /\ analytics.puzzleAttempts = 2
    /\ analytics.hintsUsed = 1

\* what init() builds in a new page from the text saveGameData() would write now
reloaded == construct(<<saveBlob(user, settings, chambers, chamberOrder, now)>>)

\* C16: in every reachable state, saving and loading gives back the same
\* profile (level, xp, xpToNext, totalSolved, currentStreak, chambersUnlocked),
\* the same settings and the same chambers in the same order, each with the
\* same progress, unlockLevel and puzzleCount.
C16_SaveLoadRoundTrip ==
    LET r == reloaded IN
    /\ r.user = user
    /\ r.settings = settings
    /\ r.chamberOrder = chamberOrder
    /\ DOMAIN r.chambers = DOMAIN chambers
    /\ \A id \in DOMAIN chambers :
        /\ r.chambers[id].progress = chambers[id].progress
        /\ r.chambers[id].unlockLevel = chambers[id].unlockLevel
        /\ r.chambers[id].puzzleCount = chambers[id].puzzleCount

\* C16 witness: a profile with progress and a changed setting comes back from
\* its own saved text
C16_Witness ==
    /\ storage = <<saveBlob(user, settings, chambers, chamberOrder, now)>>
    /\ construct(storage).user = user
    /\ user.level = 5
    /\ user.totalSolved = 26
    /\ settings.fontSize = "large"
    /\ chambers["pattern-recognition"].progress.completed = 26

\* what the stored text says of the chamber id: the value of its last entry
\* in the chambers section, undefined when there is none
savedChamber(data, id) ==
    LET section == member(data, "chambers")
        entries == IF section.t = "array" THEN section.m ELSE <<>>
        own == SelectSeq(entries, LAMBDA item : entryKey(item.v) = id)
    IN IF own = <<>> THEN JUndefined ELSE entryPart(own[Len(own)].v, 2)

\* C17: once init() has loaded whatever text the store holds (none, an
\* unparsable one, one with missing or malformed sections), every field the
\* text lacks has its default value, in the profile, in the settings and in
\* every chamber, and a text from which nothing is recovered leaves exactly
\* the fresh default state.
C17_LoadFallsBackToDefaults ==
    loadingComplete =>
        LET data == IF storage = <<>> THEN JUndefined ELSE storage[1] IN
        /\ \A key \in DOMAIN defaultUser :
                member(member(data, "user"), key).t = "undefined" =>
                    key \in DOMAIN user /\ user[key] = defaultUser[key]
        /\ \A key \in DOMAIN defaultSettings :
                member(member(data, "settings"), key).t = "undefined" =>
                    key \in DOMAIN settings /\ settings[key] = defaultSettings[key]
        /\ \A id \in ChamberIds :
            /\ id \in DOMAIN chambers
            /\ \A key \in {"unlockLevel", "puzzleCount"} :
                    member(savedChamber(data, id), key).t = "undefined" =>
                        key \in DOMAIN chambers[id] /\ chambers[id][key] = definitionOf(id)[key]
            /\ member(member(savedChamber(data, id), "progress"), "completed").t = "undefined" =>
                    /\ "progress" \in DOMAIN chambers[id]
                    /\ "completed" \in DOMAIN chambers[id].progress
                    /\ chambers[id].progress.completed = 0
        /\ data.t # "object" =>
                /\ user = defaultUser
                /\ settings = defaultSettings
                /\ chambers = construct(<<>>).chambers
                /\ chamberOrder = definitionIds

\* C18: updateUnlockedChambers sets chambersUnlocked to the number of defined
\* chambers whose unlockLevel <= level, changes nothing else, and applying it
\* a second time changes nothing.
C18_RecomputeUnlocksIdempotent ==
    [][UpdateUnlockedChambers =>
        /\ user'.chambersUnlocked =
                Cardinality({i \in DOMAIN chamberDefinitions :
                                chamberDefinitions[i].unlockLevel <= user.level})
        /\ user' = [user EXCEPT !.chambersUnlocked = user'.chambersUnlocked]
        /\ updateUnlockedChambers(user', chambers') = user']_vars

\* C18 witness: recomputed at level 1, where the constructor's count of 1
\* becomes the 2 chambers that unlock at level 1
C18_Witness ==
    /\ user.level = 1
    /\ user.xp = 99
    /\ user.chambersUnlocked = 2

\* C19: a failing event sink does not truncate the operation that emitted the
\* event: every correct answer ends with progress.completed, totalSolved and
\* currentStreak incremented, the score shown, xp < xpToNext and the progress
\* saved; starting a puzzle and revealing a hint take effect all the same.
C19_SinkFailureHarmless ==
    [][/\ user'.totalSolved # user.totalSolved =>
            /\ user'.totalSolved = user.totalSolved + 1
            /\ user'.currentStreak = user.currentStreak + 1
            /\ liveCompleted' = liveCompleted + 1
            /\ user'.xp < user'.xpToNext
            /\ feedback' = <<finalScore(currentPuzzle'[1], now)>>
            /\ storage' = <<saveBlob(user', settings', chambers', chamberOrder', now')>>
       /\ (currentPuzzle # <<>> /\ ShowHint) =>
            currentPuzzle'[1].hintsUsed = currentPuzzle[1].hintsUsed + 1
       /\ \A c \in ChamberInputs :
            (/\ c \in DOMAIN chambers
             /\ chambers[c].unlockLevel <= user.level
             /\ chambers[c].progress.completed < Len(puzzlesOf(c))
             /\ EnterChamber(c)) => (currentPuzzle' # <<>> /\ currentPuzzle'[1].chamberId = c)]_vars

\* C20: while no attempt is live, checkAnswer, showHint, resetPuzzle and
\* nextPuzzle do nothing: the profile, the chambers' progress, the analytics
\* counters, the store and the absence of an attempt are as before.
C20_IdleOperationsRejected ==
    [][(/\ currentPuzzle = <<>>
        /\ \/ \E a \in Answers : CheckAnswer(a)
           \/ ShowHint
           \/ ResetPuzzle
           \/ NextPuzzle) =>
            UNCHANGED <<user, chambers, analytics, currentPuzzle, currentChamber, feedback,
                        storage>>]_vars

\* C20 witness: no attempt is live, no chamber has been entered (the one asked
\* for was locked) and the counters of the session are at zero
C20_Witness ==
    /\ currentPuzzle = <<>>
    /\ currentChamber = NoChamber
    /\ toast = NotUnlockedMessage
    /\ analytics = defaultAnalytics
    /\ user = defaultUser

\* C21: one correct answer increments by 1 the progress.completed of the
\* attempt's chamber, totalSolved and currentStreak, and gives the score to
\* addXP; nothing else of the profile changes, and every other chamber, the
\* unlockLevel and puzzleCount of the attempt's chamber and the catalogue are as
\* before.
C21_CorrectFrame ==
    [][user'.totalSolved # user.totalSolved =>
        LET cp == currentPuzzle'[1]
            counted == [user EXCEPT !.totalSolved = @ + 1, !.currentStreak = @ + 1]
        IN /\ currentPuzzle # <<>>
           /\ cp.chamberId = currentPuzzle[1].chamberId
           /\ cp.puzzleIndex = currentPuzzle[1].puzzleIndex
           /\ chambers' = [chambers EXCEPT ![cp.chamberId].progress.completed = @ + 1]
           /\ user' = addXP(counted, chambers', finalScore(cp, now))
           /\ user'.totalSolved = user.totalSolved + 1
           /\ user'.currentStreak = user.currentStreak + 1
           /\ chamberOrder' = chamberOrder
           /\ puzzleOf(cp) = puzzleOf(currentPuzzle[1])]_vars

\* C21 witness: the first puzzle of spatial-reasoning was solved at once on a
\* profile with 24 puzzles of pattern-recognition solved
C21_Witness ==
    /\ currentPuzzle # <<>>
    /\ currentPuzzle[1].chamberId = "spatial-reasoning"
    /\ chambers["spatial-reasoning"].progress.completed = 1
    /\ chambers["pattern-recognition"].progress.completed = 24
    /\ user.totalSolved = 25
    /\ user.currentStreak = 25
    /\ user.xp = 51
    /\ feedback = <<15>>

\* C22: after the player confirms the reset, the next load of the page starts
\* from the fresh default profile: no save of the running game brings the old
\* progress back.
C22_ResetThenLoadIsFresh ==
    [][(resetDone /\ loadingComplete' /\ ~resetDone') =>
            /\ user' = defaultUser
            /\ chambers' = construct(<<>>).chambers
            /\ settings' = defaultSettings]_vars

\* C23: while the player has opted out (after optOut() and until optIn()), no
\* event is recorded: this.events gets no entry and the stored events are not
\* changed.
C23_OptedOutRecordsNothing ==
    [][(optedOut /\ optedOut') =>
            /\ Len(events') <= Len(events)
            /\ storedEvents' = storedEvents]_vars

\* C24: a correct answer ends with the store holding the state the answer
\* leaves (completed, totalSolved, currentStreak, xp and level as incremented);
\* no stored text has an attempt in it; when the page is loaded anew (the
\* session counters restart) the progress is kept and no attempt is live; and
\* an attempt started when none was live is at index progress.completed of
\* its chamber with no hint and no answer counted.
C24_SavedAfterCorrect ==
    [][/\ user'.totalSolved # user.totalSolved =>
            /\ storage' # <<>>
            /\ construct(storage').user = user'
            /\ \A id \in DOMAIN chambers' :
                    construct(storage').chambers[id].progress = chambers'[id].progress
       /\ storage' # <<>> =>
            {storage'[1].m[i].k : i \in DOMAIN storage'[1].m}
                = {"user", "settings", "chambers", "lastSaved"}
       /\ analytics'.puzzleAttempts < analytics.puzzleAttempts =>
            /\ currentPuzzle' = <<>>
            /\ user' = user
            /\ \A id \in DOMAIN chambers' : chambers'[id].progress = chambers[id].progress
       /\ (currentPuzzle = <<>> /\ currentPuzzle' # <<>>) =>
            LET cp == currentPuzzle'[1] IN
            /\ cp.puzzleIndex = chambers[cp.chamberId].progress.completed
            /\ cp.hintsUsed = 0
            /\ cp.attempts = 0
            /\ cp.startTime = now']_vars

\* C26: in every state of the loaded game, the initial one and the one right
\* after a save was loaded included, chambersUnlocked is the number of
\* chambers whose unlockLevel <= level.
C26_UnlockCountMatchesLevel ==
    loadingComplete =>
        user.chambersUnlocked =
            Cardinality({id \in DOMAIN chambers : chambers[id].unlockLevel <= user.level})

\* the sum of progress.completed over the chambers of the sequence ids
RECURSIVE SumCompleted(_, _)
SumCompleted(ch, ids) ==
    IF ids = <<>> THEN 0
    ELSE ch[Head(ids)].progress.completed + SumCompleted(ch, Tail(ids))

\* C27: in every state reached from a fresh profile, totalSolved is the sum of
\* progress.completed over all chambers and currentStreak <= totalSolved.
C27_SolvedIsSumOfCompleted ==
    /\ user.totalSolved = SumCompleted(chambers, chamberOrder)
    /\ user.currentStreak <= user.totalSolved

\* C27 witness: puzzles of two chambers were answered, the second while the
\* event sink raises
C27_Witness ==
    /\ sinkFails
    /\ chambers["pattern-recognition"].progress.completed = 24
    /\ chambers["spatial-reasoning"].progress.completed = 1
    /\ user.totalSolved = 25
    /\ user.currentStreak = 25

\* C28: after loadGameData on any text that parses, the profile has
\* level >= 1, xp >= 0, xpToNext > 0 and xp < xpToNext: stored values that
\* break these are replaced by the defaults.
C28_LoadedProfileValid ==
    loadingComplete =>
        /\ user.level >= 1
        /\ user.xp >= 0
        /\ user.xpToNext > 0
        /\ user.xp < user.xpToNext

\* C29: from every reachable profile that addXP is called on (level <
\* MaxLevel) and for every non-negative amount, the level-up loop of addXP
\* ends (xp < xpToNext), after at most
\* floor((xp + amount) / 100) level-ups; level does not go down, and xpToNext
\* does not go down, at any of the level-ups.
C29_LevelUpLoopBounded ==
    \A amount \in XPAmounts :
        user.level < MaxLevel =>
        LET r == addXP(user, chambers, amount) IN
        /\ r.xp < r.xpToNext
        /\ r.level >= user.level
        /\ r.level - user.level <= (user.xp + amount) \div 100
        /\ r.xpToNext >= user.xpToNext
        /\ \A level \in user.level .. (r.level - 1) :
                calculateXPForNextLevel(level + 1) >= calculateXPForNextLevel(level)

\* C29 witness: one call with 331 took the fresh profile through three
\* level-ups, floor(331 / 100), to level 4 with nothing left
C29_Witness ==
    /\ user.level = 4
    /\ user.xp = 0
    /\ user.xpToNext = 133
    /\ addXP(defaultUser, chambers, 331) = user

\* C30: once every timer has run after any sequence of showScreen calls, calls
\* made before the timers of earlier calls have run included, exactly one
\* screen is active, the screen of the last call, currentScreen names it, and
\* the history ends with the screen displayed before it, which is where goBack
\* returns to, when the last call saved the history.
C30_LastShownAloneActive ==
    (timers = <<>> /\ callLog # <<>>) =>
        LET last == callLog[Len(callLog)] IN
        /\ {screen \in Screens : "active" \in screenClasses[screen]} = {last.screen}
        /\ currentScreen = last.screen
        /\ (last.saveHistory /\ Len(displayLog) >= 2) =>
                /\ screenHistory # <<>>
                /\ screenHistory[Len(screenHistory)] = displayLog[Len(displayLog) - 1]

====
